---- MODULE Spec2Model ----
(***************************************************************************)
(* A model of the currency bot: the ledger (DatabaseManager over the users *)
(* and transactions tables), the leveling engine (LevelingSystem) and the  *)
(* event handlers of the bot (on_message, on_member_update and the slash   *)
(* commands).                                                              *)
(*                                                                         *)
(* Scheduling.  The bot is one asyncio event loop (main.py, asyncio.run).  *)
(* Every DatabaseManager method is synchronous, and in every handler all   *)
(* ledger calls come before the first await that suspends (the sending of  *)
(* a reply or of a notification).  The ledger section of a handler is      *)
(* therefore one atomic step; what can overlap with other handlers is the  *)
(* delivery of the level-up notification, which is a step of its own.      *)
(*                                                                         *)
(* Storage.  DatabaseManager.Session is a scoped_session: every            *)
(* get_session() of the (single) thread returns the same Session object.   *)
(* A nested get_user_data() therefore commits and closes the session its   *)
(* caller is using.  A storage fault (SQLAlchemyError) is an input of a    *)
(* ledger call; a behaviour holds at most MaxFaults of them.               *)
(* get_leaderboard, when an attempt of it fails, replaces the               *)
(* scoped_session by a plain sessionmaker: from then on every               *)
(* get_session() returns a Session of its own.                              *)
(***************************************************************************)
EXTENDS Integers, Sequences, FiniteSets, TLC

VARIABLES
    users,      \* the users table: user_id -> row, for the rows that exist
    tx,         \* the transactions table: the sequence of rows, oldest first
    now,        \* datetime.now(), in seconds
    faults,     \* storage faults injected so far
    notifs,     \* level-up notifications whose delivery is in flight
    ret,        \* what the last observed ledger call or handler did
    hist,       \* the observed calls of a scenario, oldest first
    scoped      \* self.Session is the scoped_session of __init__

vars == <<users, tx, now, faults, notifs, ret, hist, scoped>>

(***************************************************************************)
(* Config (config.py)                                                      *)
(***************************************************************************)
BASE_XP_PER_MESSAGE == 15
MAX_LENGTH_BONUS == 10
RANDOM_XP_BONUS == 5
XP_COOLDOWN == 60
XP_PER_LEVEL_BASE == 100
BASE_COINS_PER_LEVEL == 50
DEFAULT_ROLE_REWARD == 25
MIN_TRANSACTION == 1
MAX_LEADERBOARD_ENTRIES == 10

ROLE_REWARDS ==
    [r \in {"VIP", "Supporter", "Active Member", "Member", "Verified"} |->
        CASE r = "VIP" -> 100
          [] r = "Supporter" -> 75
          [] r = "Active Member" -> 50
          [] r = "Member" -> 25
          [] r = "Verified" -> 10]

(***************************************************************************)
(* Bounds of the model and the inputs of the events                        *)
(***************************************************************************)
MaxTx == 2          \* rows of the transactions table
MaxTicks == 2       \* steps of the clock
TickStep == 30      \* seconds per step of the clock
MaxFaults == 1      \* storage faults per behaviour
MaxBalance == 2     \* the balance a batch of debits starts from
MaxDebits == 3      \* debits of a batch
MaxEvents == 3      \* message events of a recorded run
MaxOutage == 3      \* attempts in a row that a storage outage fails
MaxMessages == 4    \* total_messages of all rows, for direct add_xp calls
MaxLevel == 12      \* the highest level the formulas are applied to
MaxApplied == 2     \* applications of the formulas in a row

UserIds == {"u1", "u2"}
None == "None"
Amounts == {-1, 0, 1}

(***************************************************************************)
(* models.py                                                               *)
(***************************************************************************)
\* User(...) as get_user_data builds it; last_xp_gain: <<>> is NULL, <<t>> a time.
DefaultUser ==
    [coins |-> 0, xp |-> 0, level |-> 1, total_messages |-> 0, last_xp_gain |-> <<>>]

Transaction(from, to, amount, kind) ==
    [from_user_id |-> from, to_user_id |-> to, amount |-> amount,
     transaction_type |-> kind]

\* The constraints of the transactions table that a flush can violate:
\* to_user_id is nullable=False, from_user_id is nullable=True.
TxInsertOk(row) == row.to_user_id # None

Db(u, t) == [users |-> u, tx |-> t]

Exists(d, uid) == uid \in DOMAIN d.users

(***************************************************************************)
(* DatabaseManager (db_manager.py).  A call takes the tables d and returns *)
(* [db, val, raised, hit]: the tables it leaves committed, its return      *)
(* value, whether it raised, and whether the storage fault f hit it.       *)
(* f is "none", "pre" (an SQLAlchemyError at the first query of the call,  *)
(* or inside the nested get_user_data) or "post" (at the last statement of *)
(* the call that touches the storage: its commit, or its only query).      *)
(***************************************************************************)
Result(d, v, r, h) == [db |-> d, val |-> v, raised |-> r, hit |-> h]

\* get_user_data that builds the defaults without storing them.
get_user_data_unsaved(d, uid, f) ==
    IF f # "none" THEN Result(d, DefaultUser, TRUE, TRUE)
    ELSE Result(d, IF Exists(d, uid) THEN d.users[uid] ELSE DefaultUser,
                FALSE, FALSE)

\* get_user_data: the row, created and committed first if it does not exist.
\* A fault rolls back and re-raises.
get_user_data(d, uid, f) ==
    LET d1 == IF Exists(d, uid) THEN d
              ELSE Db(d.users @@ (uid :> DefaultUser), d.tx)
    IN  IF f # "none" THEN Result(d, DefaultUser, TRUE, TRUE)
        ELSE Result(d1, d1.users[uid], FALSE, FALSE)

\* get_coins, get_xp, get_level: a missing row is created by get_user_data and
\* the default returned; every SQLAlchemyError (also the nested one) is caught
\* and the default returned.
get_coins(d, uid, f) ==
    IF f # "none" THEN Result(d, 0, FALSE, TRUE)
    ELSE IF ~Exists(d, uid) THEN Result(get_user_data(d, uid, "none").db, 0, FALSE, FALSE)
    ELSE Result(d, d.users[uid].coins, FALSE, FALSE)

get_xp(d, uid, f) ==
    IF f # "none" THEN Result(d, 0, FALSE, TRUE)
    ELSE IF ~Exists(d, uid) THEN Result(get_user_data(d, uid, "none").db, 0, FALSE, FALSE)
    ELSE Result(d, d.users[uid].xp, FALSE, FALSE)

get_level(d, uid, f) ==
    IF f # "none" THEN Result(d, 1, FALSE, TRUE)
    ELSE IF ~Exists(d, uid) THEN Result(get_user_data(d, uid, "none").db, 1, FALSE, FALSE)
    ELSE Result(d, d.users[uid].level, FALSE, FALSE)

\* The tables after the lazy creation at the head of a mutating call.
Ensured(d, uid) == IF Exists(d, uid) THEN d ELSE get_user_data(d, uid, "none").db

\* session.commit() of a unit of work that changed the users to u2 and added
\* the transactions row: all of it, or (the row refused by the table) an
\* IntegrityError and none of it.
CommitWithRow(d, u2, row) ==
    IF TxInsertOk(row) THEN Result(Db(u2, Append(d.tx, row)), TRUE, FALSE, FALSE)
    ELSE Result(d, FALSE, TRUE, FALSE)

\* add_coins with the balance committed before the row is added and committed.
add_coins_two_commits(d, uid, amount, kind, f) ==
    LET d1 == Ensured(d, uid)
        d2 == Db([d1.users EXCEPT ![uid].coins = @ + amount], d1.tx)
    IN  CASE f = "pre" -> Result(d, 0, TRUE, TRUE)
          [] f = "post" -> Result(d2, 0, TRUE, TRUE)
          [] OTHER -> Result(Db(d2.users,
                                Append(d2.tx, Transaction(None, uid, amount, kind))),
                             d2.users[uid].coins, FALSE, FALSE)

\* add_coins: coins += amount and one row from NULL to the user, in one commit.
add_coins(d, uid, amount, kind, f) ==
    LET d1 == Ensured(d, uid)
        c == CommitWithRow(d1, [d1.users EXCEPT ![uid].coins = @ + amount],
                           Transaction(None, uid, amount, kind))
    IN  CASE f = "pre" -> Result(d, 0, TRUE, TRUE)
          [] f = "post" -> Result(d1, 0, TRUE, TRUE)
          [] OTHER -> IF c.raised THEN Result(d1, 0, TRUE, FALSE)
                      ELSE Result(c.db, c.db.users[uid].coins, FALSE, FALSE)

\* remove_coins without its check of the balance, the row written to the user.
remove_coins_unchecked(d, uid, amount, kind, f) ==
    IF f # "none" \/ ~Exists(d, uid) THEN Result(d, FALSE, FALSE, f # "none")
    ELSE Result(Db([d.users EXCEPT ![uid].coins = @ - amount],
                   Append(d.tx, Transaction(uid, uid, -amount, kind))),
                TRUE, FALSE, FALSE)

\* remove_coins: False when the row is missing or holds less than amount; else
\* coins -= amount and one row from the user to NULL, in one commit.  Every
\* SQLAlchemyError is caught: rollback, and False.
remove_coins(d, uid, amount, kind, f) ==
    LET c == CommitWithRow(d, [d.users EXCEPT ![uid].coins = @ - amount],
                           Transaction(uid, None, -amount, kind))
    IN  IF f = "pre" THEN Result(d, FALSE, FALSE, TRUE)
        ELSE IF ~Exists(d, uid) \/ d.users[uid].coins < amount
             THEN Result(d, FALSE, FALSE, FALSE)
        ELSE IF f = "post" THEN Result(d, FALSE, FALSE, TRUE)
        ELSE IF c.raised THEN Result(d, FALSE, FALSE, FALSE)
        ELSE Result(c.db, TRUE, FALSE, FALSE)

\* set_coins: coins = amount and one admin_set row carrying the difference,
\* from NULL to the user when the difference is positive and from the user to
\* NULL otherwise, in one commit.
set_coins(d, uid, amount, f) ==
    LET d1 == Ensured(d, uid)
        diff == amount - d1.users[uid].coins
        c == CommitWithRow(d1, [d1.users EXCEPT ![uid].coins = amount],
                 Transaction(IF diff > 0 THEN None ELSE uid,
                             IF diff > 0 THEN uid ELSE None, diff, "admin_set"))
    IN  CASE f = "pre" -> Result(d, 0, TRUE, TRUE)
          [] f = "post" -> Result(d1, 0, TRUE, TRUE)
          [] OTHER -> IF c.raised THEN Result(d1, 0, TRUE, FALSE)
                      ELSE Result(c.db, 0, FALSE, FALSE)

\* add_xp that leaves total_messages alone.
add_xp_uncounted(d, uid, amount, t, f) ==
    LET d1 == Ensured(d, uid)
        u2 == [d1.users EXCEPT ![uid].xp = @ + amount,
                               ![uid].last_xp_gain = <<t>>]
    IN  CASE f = "pre" -> Result(d, 0, TRUE, TRUE)
          [] f = "post" -> Result(d1, 0, TRUE, TRUE)
          [] OTHER -> Result(Db(u2, d1.tx), u2[uid].xp, FALSE, FALSE)

\* add_xp that stores the amount in place of the sum.
add_xp_overwrites(d, uid, amount, t, f) ==
    LET d1 == Ensured(d, uid)
        u2 == [d1.users EXCEPT ![uid].xp = amount,
                               ![uid].total_messages = @ + 1,
                               ![uid].last_xp_gain = <<t>>]
    IN  CASE f = "pre" -> Result(d, 0, TRUE, TRUE)
          [] f = "post" -> Result(d1, 0, TRUE, TRUE)
          [] OTHER -> Result(Db(u2, d1.tx), u2[uid].xp, FALSE, FALSE)

\* add_xp that writes the whole row back, its other fields as they were when
\* the row was created.
add_xp_stale_row(d, uid, amount, t, f) ==
    LET d1 == Ensured(d, uid)
        u2 == [d1.users EXCEPT ![uid] = [DefaultUser EXCEPT
                                           !.xp = d1.users[uid].xp + amount,
                                           !.total_messages = d1.users[uid].total_messages + 1,
                                           !.last_xp_gain = <<t>>]]
    IN  CASE f = "pre" -> Result(d, 0, TRUE, TRUE)
          [] f = "post" -> Result(d1, 0, TRUE, TRUE)
          [] OTHER -> Result(Db(u2, d1.tx), u2[uid].xp, FALSE, FALSE)

\* add_xp: xp += amount, total_messages += 1, last_xp_gain = now, one commit.
add_xp(d, uid, amount, t, f) ==
    LET d1 == Ensured(d, uid)
        u2 == [d1.users EXCEPT ![uid].xp = @ + amount,
                               ![uid].total_messages = @ + 1,
                               ![uid].last_xp_gain = <<t>>]
    IN  CASE f = "pre" -> Result(d, 0, TRUE, TRUE)
          [] f = "post" -> Result(d1, 0, TRUE, TRUE)
          [] OTHER -> Result(Db(u2, d1.tx), u2[uid].xp, FALSE, FALSE)

\* set_level: level = level, one commit.
set_level(d, uid, level, f) ==
    LET d1 == Ensured(d, uid)
    IN  CASE f = "pre" -> Result(d, 0, TRUE, TRUE)
          [] f = "post" -> Result(d1, 0, TRUE, TRUE)
          [] OTHER -> Result(Db([d1.users EXCEPT ![uid].level = level], d1.tx),
                             0, FALSE, FALSE)

\* can_gain_xp: a read.  True for a missing row, for a NULL last_xp_gain and
\* when cooldown_seconds have passed; an SQLAlchemyError is caught, and True.
can_gain_xp(d, uid, cooldown_seconds, t, f) ==
    IF f # "none" THEN Result(d, TRUE, FALSE, TRUE)
    ELSE IF ~Exists(d, uid) \/ d.users[uid].last_xp_gain = <<>>
         THEN Result(d, TRUE, FALSE, FALSE)
    ELSE Result(d, t - d.users[uid].last_xp_gain[1] >= cooldown_seconds, FALSE, FALSE)

\* transfer_coins with the receiver's increment lost.
transfer_coins_no_credit(d, from, to, amount, f) ==
    IF f = "none" /\ Exists(d, from) /\ Exists(d, to) /\ d.users[from].coins >= amount
    THEN Result(Db([d.users EXCEPT ![from].coins = @ - amount],
                   Append(d.tx, Transaction(from, to, amount, "user_pay"))),
                TRUE, FALSE, FALSE)
    ELSE Result(d, FALSE, FALSE, f # "none")

\* transfer_coins with the receiver's row created before the sender is checked.
transfer_coins_creates_first(d, from, to, amount, f) ==
    LET d1 == Ensured(d, to)
    IN  IF f # "none" THEN Result(d, FALSE, FALSE, TRUE)
        ELSE IF ~Exists(d1, from) \/ d1.users[from].coins < amount
             THEN Result(d1, FALSE, FALSE, FALSE)
        ELSE Result(Db([d1.users EXCEPT ![from].coins = @ - amount,
                                        ![to].coins = @ + amount],
                       Append(d1.tx, Transaction(from, to, amount, "user_pay"))),
                    TRUE, FALSE, FALSE)

\* transfer_coins.  Both rows are read; a missing or too poor sender gives
\* False.  A missing receiver is created by get_user_data, which commits and
\* closes the session of this very call (a scoped_session): the commit
\* expires and the close detaches from_user, whose next attribute access
\* (from_user.coins -= amount) raises DetachedInstanceError, an
\* SQLAlchemyError: rollback, and False, with the receiver's row committed.
\* Otherwise both balances and one user_pay row, in one commit.  (Once
\* self.Session is a plain sessionmaker the nested call has a Session of its
\* own and from_user stays attached; the re-query sees the committed row.)
transfer_coins(d, from, to, amount, f) ==
    LET u2 == IF from = to THEN d.users
              ELSE [d.users EXCEPT ![from].coins = @ - amount,
                                   ![to].coins = @ + amount]
        c == CommitWithRow(d, u2, Transaction(from, to, amount, "user_pay"))
    IN  IF f = "pre" THEN Result(d, FALSE, FALSE, TRUE)
        ELSE IF ~Exists(d, from) \/ d.users[from].coins < amount
             THEN Result(d, FALSE, FALSE, FALSE)
        ELSE IF ~Exists(d, to) /\ scoped
             THEN Result(get_user_data(d, to, "none").db, FALSE, FALSE, f = "post")
        ELSE IF ~Exists(d, to)
             THEN LET d1 == get_user_data(d, to, "none").db
                      c1 == CommitWithRow(d1,
                                [d1.users EXCEPT ![from].coins = @ - amount,
                                                 ![to].coins = @ + amount],
                                Transaction(from, to, amount, "user_pay"))
                  IN  IF f = "post" THEN Result(d1, FALSE, FALSE, TRUE)
                      ELSE IF c1.raised THEN Result(d1, FALSE, FALSE, FALSE)
                      ELSE Result(c1.db, TRUE, FALSE, FALSE)
        ELSE IF f = "post" THEN Result(d, FALSE, FALSE, TRUE)
        ELSE IF c.raised THEN Result(d, FALSE, FALSE, FALSE)
        ELSE Result(c.db, TRUE, FALSE, FALSE)

\* The entry that get_leaderboard builds from a row.
Entry(d, uid) ==
    [user_id |-> uid, coins |-> d.users[uid].coins, level |-> d.users[uid].level,
     xp |-> d.users[uid].xp, total_messages |-> d.users[uid].total_messages]

\* ORDER BY of the two queries: level DESC, xp DESC for sort_by "level",
\* coins DESC for every other sort_by.
OrderedBy(s, sort_by) ==
    \A i \in 1..(Len(s) - 1) :
        IF sort_by = "level"
        THEN \/ s[i].level > s[i + 1].level
             \/ s[i].level = s[i + 1].level /\ s[i].xp >= s[i + 1].xp
        ELSE s[i].coins >= s[i + 1].coins

\* The query without its ORDER BY.
QueryResultsAnyOrder(d, limit, sort_by) ==
    LET ids == DOMAIN d.users
        n == Cardinality(ids)
        all == {[i \in 1..n |-> Entry(d, o[i])] :
                    o \in {f \in [1..n -> ids] :
                              \A i, j \in 1..n : i # j => f[i] # f[j]}}
    IN  {IF n <= limit THEN s ELSE SubSeq(s, 1, limit) : s \in all}

\* The results the query can give: every row once, in an order the ORDER BY
\* allows (rows that tie come in the order the database picks), cut by LIMIT.
QueryResults(d, limit, sort_by) ==
    LET ids == DOMAIN d.users
        n == Cardinality(ids)
        all == {[i \in 1..n |-> Entry(d, o[i])] :
                    o \in {f \in [1..n -> ids] :
                              \A i, j \in 1..n : i # j => f[i] # f[j]}}
    IN  {IF n <= limit THEN s ELSE SubSeq(s, 1, limit) :
            s \in {t \in all : OrderedBy(t, sort_by)}}

\* The loop with range(4) and the last attempt numbered 3.
RECURSIVE get_leaderboard_from_four(_, _, _, _, _)
get_leaderboard_from_four(d, limit, sort_by, failures, attempt) ==
    IF failures > attempt
    THEN IF attempt = 3
         THEN {[entries |-> <<>>, attempts |-> attempt + 1, recreated |-> TRUE]}
         ELSE get_leaderboard_from_four(d, limit, sort_by, failures, attempt + 1)
    ELSE {[entries |-> e, attempts |-> attempt + 1, recreated |-> attempt > 0] :
            e \in QueryResults(d, limit, sort_by)}

\* The loop of get_leaderboard from the attempt numbered attempt (0, 1, 2),
\* when the first failures attempts raise SQLAlchemyError: what it can return,
\* the attempts made, and whether self.Session was replaced on the way.
RECURSIVE get_leaderboard_from(_, _, _, _, _)
get_leaderboard_from(d, limit, sort_by, failures, attempt) ==
    IF failures > attempt
    THEN IF attempt = 2
         THEN {[entries |-> <<>>, attempts |-> attempt + 1, recreated |-> TRUE]}
         ELSE get_leaderboard_from(d, limit, sort_by, failures, attempt + 1)
    ELSE {[entries |-> e, attempts |-> attempt + 1, recreated |-> attempt > 0] :
            e \in QueryResults(d, limit, sort_by)}

get_leaderboard(d, limit, sort_by, failures) ==
    get_leaderboard_from(d, limit, sort_by, failures, 0)

\* get_user_count: the number of rows, 0 when the query fails.
get_user_count(d, f) ==
    IF f # "none" THEN Result(d, 0, FALSE, TRUE)
    ELSE Result(d, Cardinality(DOMAIN d.users), FALSE, FALSE)

\* backup_data: reads both tables and writes them to a file beside the bot;
\* val says whether a file name is returned (None after any exception).  The
\* tables are only read.
backup_data(d, f) ==
    IF f # "none" THEN Result(d, FALSE, FALSE, TRUE)
    ELSE Result(d, TRUE, FALSE, FALSE)

(***************************************************************************)
(* LevelingSystem (leveling.py)                                            *)
(***************************************************************************)
Max(a, b) == IF a >= b THEN a ELSE b
Min(a, b) == IF a <= b THEN a ELSE b

\* int(math.sqrt(xp / base)) for xp >= 0: the r with r*r <= xp/base < (r+1)*(r+1).
\* (Below 2^31, the range of the xp column, the double quotient and root are
\* nowhere near enough to an integer to round across it.)
IntSqrtOfQuotient(xp, base) ==
    CHOOSE r \in 0..(xp \div base) :
        r * r * base <= xp /\ xp < (r + 1) * (r + 1) * base

\* The level counted from 0.
calculate_level_from_xp_zero_based(xp) ==
    IF xp < 0 THEN 1
    ELSE Max(1, IntSqrtOfQuotient(xp, XP_PER_LEVEL_BASE))

calculate_level_from_xp(xp) ==
    IF xp < 0 THEN 1
    ELSE Max(1, IntSqrtOfQuotient(xp, XP_PER_LEVEL_BASE) + 1)

\* The xp of the level below.
calculate_xp_for_level_below(level) ==
    IF level <= 1 THEN 0
    ELSE (level - 2) * (level - 2) * XP_PER_LEVEL_BASE

calculate_xp_for_level(level) ==
    IF level <= 1 THEN 0
    ELSE (level - 1) * (level - 1) * XP_PER_LEVEL_BASE

\* The gain with a length bonus that has no ceiling.
calculate_xp_gain_uncapped(message_length, random_bonus) ==
    Max(1, BASE_XP_PER_MESSAGE + message_length \div 10 + random_bonus)

\* calculate_xp_gain, for a content of message_length characters and the
\* draw random_bonus of random.randint(0, RANDOM_XP_BONUS).
calculate_xp_gain(message_length, random_bonus) ==
    Max(1, BASE_XP_PER_MESSAGE
           + Min(message_length \div 10, MAX_LENGTH_BONUS) + random_bonus)

\* The reward with the bonus of the 5th levels only.
calculate_level_reward_no_tenth(level) ==
    IF level % 5 = 0 THEN BASE_COINS_PER_LEVEL * 2
    ELSE BASE_COINS_PER_LEVEL

calculate_level_reward(level) ==
    IF level % 10 = 0 THEN BASE_COINS_PER_LEVEL * 3
    ELSE IF level % 5 = 0 THEN BASE_COINS_PER_LEVEL * 2
    ELSE BASE_COINS_PER_LEVEL

\* The loop of handle_level_up: the rewards of the levels lo .. hi, summed.
RECURSIVE RewardSum(_, _)
RewardSum(lo, hi) ==
    IF lo > hi THEN 0 ELSE calculate_level_reward(lo) + RewardSum(lo + 1, hi)

\* What a handler leaves: the tables, its outcome, whether a storage fault
\* hit one of its calls, whether add_xp committed, and the notifications it
\* goes on to send.
Outcome(d, out, hit, granted, sends) ==
    [db |-> d, out |-> out, hit |-> hit, granted |-> granted, sends |-> sends]

\* handle_level_up that notifies without crediting the reward.
handle_level_up_uncredited(d, uid, old_level, new_level, f) ==
    Outcome(d, "level_up", FALSE, TRUE,
            {[user |-> uid, new_level |-> new_level,
              coin_reward |-> RewardSum(old_level + 1, new_level),
              levels_gained |-> new_level - old_level]})

\* handle_level_up, up to its await: the summed reward credited by one
\* add_coins, then the notification.
handle_level_up(d, uid, old_level, new_level, f) ==
    LET coin_reward == RewardSum(old_level + 1, new_level)
        ac == IF coin_reward > 0
              THEN add_coins(d, uid, coin_reward, "level_up", f)
              ELSE Result(d, 0, FALSE, FALSE)
    IN  IF ac.raised THEN Outcome(ac.db, "raised", ac.hit, TRUE, {})
        ELSE Outcome(ac.db, "level_up", ac.hit, TRUE,
                     {[user |-> uid, new_level |-> new_level,
                       coin_reward |-> coin_reward,
                       levels_gained |-> new_level - old_level]})

\* process_message, up to the await of handle_level_up.  site names the call
\* the storage fault f hits, if any.
process_message(d, uid, message_length, random_bonus, t, site, f) ==
    LET F(call) == IF site = call THEN f ELSE "none"
        can == can_gain_xp(d, uid, XP_COOLDOWN, t, F("can_gain_xp"))
        xp_gain == calculate_xp_gain(message_length, random_bonus)
        gx == get_xp(d, uid, F("get_xp"))
        old_level == calculate_level_from_xp(gx.val)
        ax == add_xp(gx.db, uid, xp_gain, t, F("add_xp"))
        new_level == calculate_level_from_xp(ax.val)
        sl == set_level(ax.db, uid, new_level, F("set_level"))
        lu == handle_level_up(sl.db, uid, old_level, new_level, F("add_coins"))
    IN  IF ~can.val THEN Outcome(d, "cooldown", can.hit, FALSE, {})
        ELSE IF xp_gain <= 0 THEN Outcome(d, "no_gain", can.hit, FALSE, {})
        ELSE IF ax.raised
             THEN Outcome(ax.db, "raised", can.hit \/ gx.hit \/ ax.hit, FALSE, {})
        ELSE IF sl.raised
             THEN Outcome(sl.db, "raised", can.hit \/ gx.hit \/ sl.hit, TRUE, {})
        ELSE IF new_level > old_level
             THEN [lu EXCEPT !.hit = @ \/ can.hit \/ gx.hit]
        ELSE Outcome(sl.db, "granted", can.hit \/ gx.hit, TRUE, {})

\* get_user_stats: the row (created if missing) and the progress figures
\* computed from the stored level.  The SQLAlchemyError of get_user_data is
\* not caught.  (progress_percentage divides xp_progress by xp_for_next_level,
\* a float; for a level >= 1 the divisor is (2 * level - 1) *
\* XP_PER_LEVEL_BASE, never 0.)
get_user_stats(d, uid, f) ==
    LET gu == get_user_data(d, uid, f)
        current_xp == gu.val.xp
        current_level == gu.val.level
        xp_for_current == calculate_xp_for_level(current_level)
        xp_for_next == calculate_xp_for_level(current_level + 1)
    IN  IF gu.raised THEN Result(gu.db, <<>>, TRUE, gu.hit)
        ELSE Result(gu.db,
                    [coins |-> gu.val.coins, xp |-> current_xp,
                     level |-> current_level,
                     xp_progress |-> current_xp - xp_for_current,
                     xp_needed |-> xp_for_next - current_xp,
                     xp_for_next_level |-> xp_for_next - xp_for_current,
                     total_messages |-> gu.val.total_messages],
                    FALSE, FALSE)

(***************************************************************************)
(* on_message (main.py)                                                    *)
(***************************************************************************)
\* on_message without the check of message.author.bot.
on_message_any_author(d, uid, author_bot, message_length, random_bonus, t, site, f) ==
    process_message(d, uid, message_length, random_bonus, t, site, f)

\* on_message: it returns at once for a bot's message; any other goes to
\* process_message (process_commands after it finds no prefix command).
on_message(d, uid, author_bot, message_length, random_bonus, t, site, f) ==
    IF author_bot THEN Outcome(d, "ignored_bot", FALSE, FALSE, {})
    ELSE process_message(d, uid, message_length, random_bonus, t, site, f)

(***************************************************************************)
(* The slash commands (commands.py), each up to its first await            *)
(***************************************************************************)
Reply(d, out, hit) == Outcome(d, out, hit, FALSE, {})

\* balance: the profile of the target user, from get_user_stats; stats is
\* what the embed shows.
balance(d, uid, f) ==
    LET gs == get_user_stats(d, uid, f)
    IN  IF gs.raised THEN Reply(gs.db, "raised", gs.hit) @@ [stats |-> <<>>]
        ELSE Reply(gs.db, "profile", gs.hit) @@ [stats |-> gs.val]

\* leaderboard: a sort_by other than "coins" and "level" counts as "coins";
\* an empty list from get_leaderboard gives the "no users found" reply, any
\* other the ranking.
leaderboard(d, sort_by, failures) ==
    LET key == IF sort_by \notin {"coins", "level"} THEN "coins" ELSE sort_by
    IN  {[out |-> IF r.entries = <<>> THEN "no_data" ELSE "shown",
          sort_by |-> key, entries |-> r.entries, attempts |-> r.attempts,
          failures |-> failures, recreated |-> r.recreated] :
            r \in get_leaderboard(d, MAX_LEADERBOARD_ENTRIES, key, failures)}

\* pay with the balance read before the validations.
pay_reads_balance_first(d, sender_id, receiver_id, receiver_is_bot, amount, site, f) ==
    LET F(call) == IF site = call THEN f ELSE "none"
        gc == get_coins(d, sender_id, F("get_coins"))
        tr == transfer_coins(gc.db, sender_id, receiver_id, amount,
                             F("transfer_coins"))
    IN  IF sender_id = receiver_id THEN Reply(gc.db, "invalid_self", gc.hit)
        ELSE IF receiver_is_bot THEN Reply(gc.db, "invalid_bot", gc.hit)
        ELSE IF amount < MIN_TRANSACTION THEN Reply(gc.db, "invalid_amount", gc.hit)
        ELSE IF gc.val < amount THEN Reply(gc.db, "insufficient_funds", gc.hit)
        ELSE IF ~tr.val THEN Reply(tr.db, "transaction_failed", gc.hit \/ tr.hit)
        ELSE Reply(tr.db, "paid", gc.hit \/ tr.hit)

\* pay: the three validations, the balance check on get_coins (which creates
\* the sender's row), then transfer_coins.  The two get_coins after a
\* success read rows that exist and only feed the reply.
pay(d, sender_id, receiver_id, receiver_is_bot, amount, site, f) ==
    LET F(call) == IF site = call THEN f ELSE "none"
        gc == get_coins(d, sender_id, F("get_coins"))
        tr == transfer_coins(gc.db, sender_id, receiver_id, amount,
                             F("transfer_coins"))
    IN  IF sender_id = receiver_id THEN Reply(d, "invalid_self", FALSE)
        ELSE IF receiver_is_bot THEN Reply(d, "invalid_bot", FALSE)
        ELSE IF amount < MIN_TRANSACTION THEN Reply(d, "invalid_amount", FALSE)
        ELSE IF gc.val < amount THEN Reply(gc.db, "insufficient_funds", gc.hit)
        ELSE IF ~tr.val THEN Reply(tr.db, "transaction_failed", gc.hit \/ tr.hit)
        ELSE Reply(tr.db, "paid", gc.hit \/ tr.hit)

\* give without its check of the amount.
give_coins_any_amount(d, is_admin, uid, amount, site, f) ==
    LET F(call) == IF site = call THEN f ELSE "none"
        gc == get_coins(d, uid, F("get_coins"))
        ac == add_coins(gc.db, uid, amount, "admin_give", F("add_coins"))
    IN  IF ~is_admin THEN Reply(d, "denied", FALSE)
        ELSE IF ac.raised THEN Reply(ac.db, "raised", gc.hit \/ ac.hit)
        ELSE Reply(ac.db, "given", gc.hit \/ ac.hit)

\* give with the permission check after the balance read.
give_coins_reads_first(d, is_admin, uid, amount, site, f) ==
    LET F(call) == IF site = call THEN f ELSE "none"
        gc == get_coins(d, uid, F("get_coins"))
        ac == add_coins(gc.db, uid, amount, "admin_give", F("add_coins"))
    IN  IF ~is_admin THEN Reply(gc.db, "denied", gc.hit)
        ELSE IF amount <= 0 THEN Reply(gc.db, "invalid_amount", gc.hit)
        ELSE IF ac.raised THEN Reply(ac.db, "raised", gc.hit \/ ac.hit)
        ELSE Reply(ac.db, "given", gc.hit \/ ac.hit)

\* give: admin only, amount > 0; get_coins (which creates the row), add_coins.
give_coins(d, is_admin, uid, amount, site, f) ==
    LET F(call) == IF site = call THEN f ELSE "none"
        gc == get_coins(d, uid, F("get_coins"))
        ac == add_coins(gc.db, uid, amount, "admin_give", F("add_coins"))
    IN  IF ~is_admin THEN Reply(d, "denied", FALSE)
        ELSE IF amount <= 0 THEN Reply(d, "invalid_amount", FALSE)
        ELSE IF ac.raised THEN Reply(ac.db, "raised", gc.hit \/ ac.hit)
        ELSE Reply(ac.db, "given", gc.hit \/ ac.hit)

\* take: admin only, amount > 0; get_coins (which creates the row), then
\* remove_coins decides between the two replies.
take_coins(d, is_admin, uid, amount, site, f) ==
    LET F(call) == IF site = call THEN f ELSE "none"
        gc == get_coins(d, uid, F("get_coins"))
        rc == remove_coins(gc.db, uid, amount, "admin_take", F("remove_coins"))
    IN  IF ~is_admin THEN Reply(d, "denied", FALSE)
        ELSE IF amount <= 0 THEN Reply(d, "invalid_amount", FALSE)
        ELSE IF rc.val THEN Reply(rc.db, "taken", gc.hit \/ rc.hit)
        ELSE Reply(rc.db, "insufficient_funds", gc.hit \/ rc.hit)

\* bot.db.save_data(): DatabaseManager defines no save_data (it is a method
\* of the JSON Database of database.py), so the call raises AttributeError.
save_data(d) == Result(d, 0, TRUE, FALSE)

\* setlevel: admin only, level >= 1; get_level (which creates the row),
\* set_level, then an assignment into the dict get_user_data returns (a copy
\* of the row: nothing is stored), then save_data.
setlevel(d, is_admin, uid, level, site, f) ==
    LET F(call) == IF site = call THEN f ELSE "none"
        gl == get_level(d, uid, F("get_level"))
        required_xp == calculate_xp_for_level(level)
        sl == set_level(gl.db, uid, level, F("set_level"))
        gu == get_user_data(sl.db, uid, F("get_user_data"))
        sd == save_data(gu.db)
    IN  IF ~is_admin THEN Reply(d, "denied", FALSE)
        ELSE IF level < 1 THEN Reply(d, "invalid_level", FALSE)
        ELSE IF sl.raised THEN Reply(sl.db, "raised", gl.hit \/ sl.hit)
        ELSE IF gu.raised THEN Reply(gu.db, "raised", gl.hit \/ gu.hit)
        ELSE IF sd.raised THEN Reply(sd.db, "attribute_error", gl.hit)
        ELSE Reply(sd.db, "level_set", gl.hit)

\* backup: admin only; backup_data, and get_user_count for the reply when a
\* file was written.
backup(d, is_admin, site, f) ==
    LET F(call) == IF site = call THEN f ELSE "none"
        bd == backup_data(d, F("backup_data"))
        uc == get_user_count(bd.db, F("get_user_count"))
    IN  IF ~is_admin THEN Reply(d, "denied", FALSE)
        ELSE IF bd.val THEN Reply(uc.db, "backup_created", uc.hit)
        ELSE Reply(bd.db, "backup_failed", bd.hit)

(***************************************************************************)
(* on_member_update (main.py)                                              *)
(***************************************************************************)
RoleReward(role_name) ==
    IF role_name \in DOMAIN ROLE_REWARDS THEN ROLE_REWARDS[role_name]
    ELSE DEFAULT_ROLE_REWARD

\* The loop over new_roles, taken in the order roles; the storage fault f
\* hits the add_coins of the role at index site (0: none).  An add_coins that
\* raises ends the handler, the earlier credits committed.
RECURSIVE RoleLoop(_, _, _, _, _, _)
RoleLoop(d, uid, roles, k, site, f) ==
    IF k > Len(roles) THEN Reply(d, "rewarded", FALSE)
    ELSE LET reward == RoleReward(roles[k])
             ac == IF reward > 0
                   THEN add_coins(d, uid, reward, "role_reward",
                                  IF site = k THEN f ELSE "none")
                   ELSE Result(d, 0, FALSE, FALSE)
             rest == RoleLoop(ac.db, uid, roles, k + 1, site, f)
         IN  IF ac.raised THEN Reply(ac.db, "raised", ac.hit)
             ELSE [rest EXCEPT !.hit = @ \/ ac.hit]

\* on_member_update with a guard for a role rewarded before: a role whose
\* reward the log already shows for the member is left out.
on_member_update_rewarded_once(d, uid, new_roles, site, f) ==
    LET fresh == SelectSeq(new_roles, LAMBDA role :
                    \A i \in 1..Len(d.tx) :
                        d.tx[i] # Transaction(None, uid, RoleReward(role), "role_reward"))
    IN  IF fresh = <<>> THEN Reply(d, "no_new_roles", FALSE)
        ELSE RoleLoop(d, uid, fresh, 1, site, f)

on_member_update(d, uid, new_roles, site, f) ==
    IF new_roles = <<>> THEN Reply(d, "no_new_roles", FALSE)
    ELSE RoleLoop(d, uid, new_roles, 1, site, f)

(***************************************************************************)
(* The bot: the events it handles, as steps                                *)
(***************************************************************************)
MessageLengths == {200}
RandomDraws == {0, RANDOM_XP_BONUS}
Levels == {0, 5}
RoleLists == {<<"VIP">>, <<"Helper", "VIP">>}

\* The storage fault of one handler run: none, or one call of those it makes.
FaultChoices(calls, kinds) == {<<"none", "none">>} \cup (calls \X kinds)

\* A row that earlier runs of the bot left in the users table: three
\* messages of 30 xp, the last of them a cooldown before the clock starts.
VeteranUser ==
    [coins |-> 0, xp |-> 90, level |-> 1, total_messages |-> 3,
     last_xp_gain |-> <<0 - XP_COOLDOWN>>]

StoredUsers ==
    {<<>>, "u1" :> VeteranUser, ("u1" :> VeteranUser) @@ ("u2" :> DefaultUser)}

NoCall ==
    [op |-> "start", user |-> None, peer |-> None, amount |-> 0,
     out |-> "none", hit |-> FALSE, granted |-> FALSE]

Init ==
    /\ users \in StoredUsers
    /\ tx = <<>>
    /\ now = 0
    /\ faults = 0
    /\ notifs = {}
    /\ ret = NoCall
    /\ hist = <<>>
    /\ scoped = TRUE

\* The handler that left r has run: its tables are the stored ones.  obs says
\* whether the step is observed, that is, recorded in ret.
Stored(obs, op, uid, peer, amount, r, fc) ==
    /\ r.hit <=> fc[1] # "none"
    /\ faults + (IF r.hit THEN 1 ELSE 0) <= MaxFaults
    /\ Len(r.db.tx) <= MaxTx
    /\ users' = r.db.users
    /\ tx' = r.db.tx
    /\ faults' = faults + (IF r.hit THEN 1 ELSE 0)
    /\ notifs' = notifs \cup r.sends
    /\ ret' = IF obs
              THEN [op |-> op, user |-> uid, peer |-> peer, amount |-> amount,
                    out |-> r.out, hit |-> r.hit, granted |-> r.granted]
              ELSE NoCall
    /\ UNCHANGED <<now, scoped>>

Handled(obs, op, uid, peer, amount, r, fc) ==
    Stored(obs, op, uid, peer, amount, r, fc) /\ UNCHANGED hist

Seen(obs, call) == IF obs THEN call ELSE NoCall

\* on_message: a bot's message is dropped, any other goes to process_message.
\* (When a call of process_message is hit, the row it works on exists, but for
\* add_xp after a get_xp that was hit; there "pre" and "post" leave the same.)
OnMessage(obs, draws) ==
    \E uid \in UserIds, n \in MessageLengths, rb \in draws,
       fc \in FaultChoices({"can_gain_xp", "get_xp", "add_xp", "set_level",
                            "add_coins"}, {"post"}) :
        Handled(obs, "message", uid, None, calculate_xp_gain(n, rb),
                process_message(Db(users, tx), uid, n, rb, now, fc[1], fc[2]), fc)

OnBotMessage(obs) ==
    /\ ret' = Seen(obs, [NoCall EXCEPT !.op = "message", !.out = "ignored_bot"])
    /\ UNCHANGED <<users, tx, now, faults, notifs, hist, scoped>>

Pay(obs) ==
    \E s \in UserIds, r \in UserIds, is_bot \in BOOLEAN, a \in Amounts,
       fc \in FaultChoices({"get_coins", "transfer_coins"}, {"pre", "post"}) :
        /\ Stored(obs, "pay", s, r, a,
                  pay(Db(users, tx), s, r, is_bot, a, fc[1], fc[2]), fc)
        /\ hist' = IF obs THEN <<[receiver_is_bot |-> is_bot]>> ELSE hist

Give(obs) ==
    \E is_admin \in BOOLEAN, uid \in UserIds, a \in Amounts,
       fc \in FaultChoices({"get_coins", "add_coins"}, {"post"}) :
        Handled(obs, "give", uid, None, a,
                give_coins(Db(users, tx), is_admin, uid, a, fc[1], fc[2]), fc)

Take(obs) ==
    \E is_admin \in BOOLEAN, uid \in UserIds, a \in Amounts,
       fc \in FaultChoices({"get_coins", "remove_coins"}, {"post"}) :
        Handled(obs, "take", uid, None, a,
                take_coins(Db(users, tx), is_admin, uid, a, fc[1], fc[2]), fc)

SetLevelCommand(obs) ==
    \E is_admin \in BOOLEAN, uid \in UserIds, level \in Levels,
       fc \in FaultChoices({"get_level", "set_level", "get_user_data"}, {"post"}) :
        Handled(obs, "setlevel", uid, None, level,
                setlevel(Db(users, tx), is_admin, uid, level, fc[1], fc[2]), fc)

\* The balance command; observed, hist holds the stats shown.
BalanceQuery(obs) ==
    \E uid \in UserIds, fc \in FaultChoices({"get_user_data"}, {"pre"}) :
        LET r == balance(Db(users, tx), uid, fc[2])
        IN  /\ Stored(obs, "balance", uid, None, 0, r, fc)
            /\ hist' = IF obs THEN <<r.stats>> ELSE hist

Backup(obs) ==
    \E is_admin \in BOOLEAN,
       fc \in FaultChoices({"backup_data", "get_user_count"}, {"post"}) :
        Handled(obs, "backup", None, None, 0,
                backup(Db(users, tx), is_admin, fc[1], fc[2]), fc)

MemberUpdate(obs) ==
    \E uid \in UserIds, roles \in RoleLists \cup {<<>>},
       fc \in FaultChoices({"add_coins_1", "add_coins_2"}, {"pre", "post"}) :
        Handled(obs, "member_update", uid, None, Len(roles),
                on_member_update(Db(users, tx), uid, roles,
                    CASE fc[1] = "add_coins_1" -> 1
                      [] fc[1] = "add_coins_2" -> 2
                      [] OTHER -> 0, fc[2]), fc)

SortKeys == {"coins", "level", "xp"}

\* The leaderboard command with a sort_by of keys, its read hit by an outage
\* of as many attempts as one of outages.  Observed, the reply is what hist
\* holds.
Leaderboard(obs, keys, outages) ==
    \E sort_by \in keys, failures \in outages :
        \E r \in leaderboard(Db(users, tx), sort_by, failures) :
            /\ scoped' = (scoped /\ ~r.recreated)
            /\ hist' = IF obs THEN <<r>> ELSE hist
            /\ ret' = Seen(obs, [NoCall EXCEPT !.op = "leaderboard", !.out = r.out,
                                               !.hit = failures > 0])
            /\ UNCHANGED <<users, tx, now, faults, notifs>>

\* The delivery of a level-up notification ends, delivered or not (every
\* exception of it is caught in send_level_up_message).
NotificationEnds(obs) ==
    \E n \in notifs, delivered \in BOOLEAN :
        /\ notifs' = notifs \ {n}
        /\ ret' = Seen(obs, [NoCall EXCEPT !.op = "notification", !.user = n.user,
                                 !.out = IF delivered THEN "sent" ELSE "lost"])
        /\ UNCHANGED <<users, tx, now, faults, hist, scoped>>

Tick(obs) ==
    /\ now < MaxTicks * TickStep
    /\ now' = now + TickStep
    /\ ret' = Seen(obs, [NoCall EXCEPT !.op = "tick"])
    /\ UNCHANGED <<users, tx, faults, notifs, hist, scoped>>

\* The bot, every event of it, unobserved.
Next ==
    \/ OnMessage(FALSE, {RANDOM_XP_BONUS})
    \/ OnBotMessage(FALSE)
    \/ Pay(FALSE)
    \/ Give(FALSE)
    \/ Take(FALSE)
    \/ SetLevelCommand(FALSE)
    \/ Backup(FALSE)
    \/ BalanceQuery(FALSE)
    \/ MemberUpdate(FALSE)
    \/ Leaderboard(FALSE, {"coins"}, {0, MaxOutage})
    \/ NotificationEnds(FALSE)
    \/ Tick(FALSE)

Spec == Init /\ [][Next]_vars

(***************************************************************************)
(* The ledger alone: the mutating calls of DatabaseManager, one per step,  *)
(* observed, with the amounts their callers pass (give, take and the       *)
(* rewards: amount > 0; pay: amount >= MIN_TRANSACTION and sender #        *)
(* receiver; set_coins has no caller, and takes any amount >= 0).  A       *)
(* leaderboard read that fails once is among them, for what it does to     *)
(* self.Session.                                                           *)
(***************************************************************************)
CallAmounts == {1, 2}
SetAmounts == {0, 1, 2}
Faults == {"none", "pre", "post"}

\* The call that returned res has run; returns_bool: it returns True or False.
Answered(op, returns_bool, uid, peer, amount, res, f) ==
    /\ res.hit <=> f # "none"
    /\ faults + (IF res.hit THEN 1 ELSE 0) <= MaxFaults
    /\ Len(res.db.tx) <= MaxTx
    /\ users' = res.db.users
    /\ tx' = res.db.tx
    /\ faults' = faults + (IF res.hit THEN 1 ELSE 0)
    /\ ret' = [op |-> op, user |-> uid, peer |-> peer, amount |-> amount,
               out |-> IF res.raised THEN "raised"
                       ELSE IF ~returns_bool THEN "returned"
                       ELSE IF res.val THEN "true" ELSE "false",
               hit |-> res.hit, granted |-> FALSE]
    /\ UNCHANGED <<now, notifs, scoped>>

Called(op, returns_bool, uid, peer, amount, res, f) ==
    Answered(op, returns_bool, uid, peer, amount, res, f) /\ UNCHANGED hist

\* The four calls, their amounts drawn from the set given.
AddCoins(amounts) ==
    \E uid \in UserIds, a \in amounts, f \in Faults :
        Called("add_coins", FALSE, uid, None, a,
               add_coins(Db(users, tx), uid, a, "admin_give", f), f)

RemoveCoins(amounts) ==
    \E uid \in UserIds, a \in amounts, f \in Faults :
        Called("remove_coins", TRUE, uid, None, a,
               remove_coins(Db(users, tx), uid, a, "admin_take", f), f)

SetCoins(amounts) ==
    \E uid \in UserIds, a \in amounts, f \in Faults :
        Called("set_coins", FALSE, uid, None, a, set_coins(Db(users, tx), uid, a, f), f)

TransferCoins(amounts) ==
    \E from \in UserIds, to \in UserIds, a \in amounts, f \in Faults :
        /\ from # to
        /\ Called("transfer_coins", TRUE, from, to, a,
                  transfer_coins(Db(users, tx), from, to, a, f), f)

\* get_leaderboard with a limit of limits and a sort_by of keys, hit by an
\* outage of as many attempts as one of outages.  Observed, hist holds the
\* call and what it returned.
GetLeaderboardCall(obs, limits, keys, outages) ==
    \E limit \in limits, sort_by \in keys, failures \in outages :
        \E r \in get_leaderboard(Db(users, tx), limit, sort_by, failures) :
            /\ scoped' = (scoped /\ ~r.recreated)
            /\ hist' = IF obs
                       THEN <<[limit |-> limit, sort_by |-> sort_by,
                               failures |-> failures, entries |-> r.entries,
                               attempts |-> r.attempts]>>
                       ELSE hist
            /\ ret' = [NoCall EXCEPT !.op = "get_leaderboard", !.amount = limit,
                                     !.out = "returned", !.hit = failures > 0]
            /\ UNCHANGED <<users, tx, now, faults, notifs>>

AddCoinsCall == AddCoins(CallAmounts)

RemoveCoinsCall == RemoveCoins(CallAmounts)

SetCoinsCall == SetCoins(SetAmounts)

TransferCoinsCall == TransferCoins(CallAmounts)

NextLedger ==
    \/ AddCoinsCall
    \/ RemoveCoinsCall
    \/ SetCoinsCall
    \/ TransferCoinsCall
    \/ GetLeaderboardCall(FALSE, {MAX_LEADERBOARD_ENTRIES}, {"coins"}, {1})

SpecLedger == Init /\ [][NextLedger]_vars

(***************************************************************************)
(* The store: the calls of the ledger, and with them add_xp and set_level, *)
(* one per step, observed.  The event loop runs the calls that handlers in *)
(* flight make one after the other, in any order.                          *)
(***************************************************************************)
XpAmounts == {calculate_xp_gain(200, RANDOM_XP_BONUS)}
StoredLevels == {5}

RECURSIVE SumMessages(_, _)
SumMessages(u, ids) ==
    IF ids = {} THEN 0
    ELSE LET id == CHOOSE x \in ids : TRUE
         IN  u[id].total_messages + SumMessages(u, ids \ {id})

AddXpCall ==
    \E uid \in UserIds, a \in XpAmounts, f \in Faults :
        LET res == add_xp(Db(users, tx), uid, a, now, f)
        IN  /\ SumMessages(res.db.users, DOMAIN res.db.users) <= MaxMessages
            /\ Called("add_xp", FALSE, uid, None, a, res, f)

SetLevelCall ==
    \E uid \in UserIds, level \in StoredLevels, f \in Faults :
        Called("set_level", FALSE, uid, None, level,
               set_level(Db(users, tx), uid, level, f), f)

NextStore ==
    \/ AddCoins({1})
    \/ RemoveCoins({1})
    \/ SetCoins({1})
    \/ TransferCoins({1})
    \/ AddXpCall
    \/ SetLevelCall
    \/ GetLeaderboardCall(FALSE, {MAX_LEADERBOARD_ENTRIES}, {"coins"}, {1})

SpecStore == Init /\ [][NextStore]_vars

(***************************************************************************)
(* The leaderboard read: get_leaderboard over tables that add_coins,       *)
(* add_xp and set_level have filled.  hist holds the last read until the   *)
(* tables change.                                                          *)
(***************************************************************************)
BoardLimits == {1, MAX_LEADERBOARD_ENTRIES}

\* A call that changes the tables, no storage fault in its way.
Changes(op, uid, amount, res) ==
    Answered(op, FALSE, uid, None, amount, res, "none") /\ hist' = <<>>

BoardAddCoins ==
    \E uid \in UserIds, a \in {MIN_TRANSACTION} :
        Changes("add_coins", uid, a,
                add_coins(Db(users, tx), uid, a, "admin_give", "none"))

BoardAddXp ==
    \E uid \in UserIds, a \in XpAmounts :
        LET res == add_xp(Db(users, tx), uid, a, now, "none")
        IN  /\ SumMessages(res.db.users, DOMAIN res.db.users) <= MaxMessages
            /\ Changes("add_xp", uid, a, res)

BoardSetLevel ==
    \E uid \in UserIds, level \in StoredLevels :
        Changes("set_level", uid, level,
                set_level(Db(users, tx), uid, level, "none"))

NextBoard ==
    \/ BoardAddCoins
    \/ BoardAddXp
    \/ BoardSetLevel
    \/ GetLeaderboardCall(TRUE, BoardLimits, SortKeys, 0..MaxOutage)

SpecBoard == Init /\ [][NextBoard]_vars

(***************************************************************************)
(* The leaderboard command among the events that write xp and level:       *)
(* messages, setlevel, the clock, the end of a notification.  The command  *)
(* runs whenever the event loop is free, so also while a notification of a *)
(* message is still being delivered.  hist holds the last reply.           *)
(***************************************************************************)
NextRanking ==
    \/ OnMessage(FALSE, {RANDOM_XP_BONUS})
    \/ SetLevelCommand(FALSE)
    \/ NotificationEnds(FALSE)
    \/ Tick(FALSE)
    \/ Leaderboard(TRUE, {"coins", "level"}, {0, MaxOutage})

SpecRanking == Init /\ [][NextRanking]_vars

(***************************************************************************)
(* The pay command, each request observed, among give commands that fund   *)
(* the accounts and leaderboard reads that meet an outage.  hist holds     *)
(* whether the receiver of the last request was a bot.                     *)
(***************************************************************************)
NextPay ==
    \/ Pay(TRUE)
    \/ Give(FALSE)
    \/ Leaderboard(FALSE, {"coins"}, {1})

SpecPay == Init /\ [][NextPay]_vars

(***************************************************************************)
(* The commands of the administrators, each observed, run by callers with  *)
(* and without the permission.                                             *)
(***************************************************************************)
NextAdmin ==
    \/ Give(TRUE)
    \/ Take(TRUE)
    \/ SetLevelCommand(TRUE)
    \/ Backup(TRUE)

SpecAdmin == Init /\ [][NextAdmin]_vars

(***************************************************************************)
(* First sight of a user: up to MaxEvents handlers in flight call          *)
(* get_user_data, in any order.  hist holds, per call: the user, whether    *)
(* the call returned, the dict it returned and whether it stored a row.     *)
(***************************************************************************)
GetUserDataCall ==
    \E uid \in UserIds, f \in {"none", "post"} :
        LET res == get_user_data(Db(users, tx), uid, f)
        IN  /\ Len(hist) < MaxEvents
            /\ Answered("get_user_data", FALSE, uid, None, 0, res, f)
            /\ hist' = Append(hist, [user |-> uid, returned |-> ~res.raised,
                                     data |-> res.val,
                                     created |-> uid \notin DOMAIN users
                                                 /\ uid \in DOMAIN res.db.users])

NextFirstSeen == GetUserDataCall

SpecFirstSeen == Init /\ [][NextFirstSeen]_vars

(***************************************************************************)
(* A batch of debits: up to MaxDebits take commands on one account are in  *)
(* flight together; the event loop runs their remove_coins one at a time,  *)
(* in any order.  hist records each call: its amount and what it returned. *)
(***************************************************************************)
Debtor == "u1"
DebitAmounts == 1..(MaxBalance + 1)

\* The account holds b coins, the gift of an admin.
InitDebits ==
    \E b \in 0..MaxBalance :
        /\ users = (Debtor :> [DefaultUser EXCEPT !.coins = b])
        /\ tx = IF b = 0 THEN <<>>
                ELSE <<Transaction(None, Debtor, b, "admin_give")>>
        /\ now = 0
        /\ faults = 0
        /\ notifs = {}
        /\ ret = NoCall
        /\ hist = <<>>
        /\ scoped = TRUE

Debit ==
    \E a \in DebitAmounts, f \in {"none", "post"} :
        LET res == remove_coins(Db(users, tx), Debtor, a, "admin_take", f)
        IN  /\ Len(hist) < MaxDebits
            /\ res.hit <=> f # "none"
            /\ faults + (IF res.hit THEN 1 ELSE 0) <= MaxFaults
            /\ users' = res.db.users
            /\ tx' = res.db.tx
            /\ faults' = faults + (IF res.hit THEN 1 ELSE 0)
            /\ hist' = Append(hist, [amount |-> a, ok |-> res.val])
            /\ ret' = [NoCall EXCEPT !.op = "remove_coins", !.user = Debtor,
                                     !.amount = a, !.hit = res.hit,
                                     !.out = IF res.val THEN "true" ELSE "false"]
            /\ UNCHANGED <<now, notifs, scoped>>

NextDebits == Debit

SpecDebits == InitDebits /\ [][NextDebits]_vars

(***************************************************************************)
(* The leveling side alone, each step observed: messages with either       *)
(* extreme of the random draw, the setlevel command, the clock.            *)
(***************************************************************************)
NextLeveling ==
    \/ OnMessage(TRUE, RandomDraws)
    \/ OnBotMessage(TRUE)
    \/ SetLevelCommand(TRUE)
    \/ NotificationEnds(TRUE)
    \/ Tick(TRUE)

SpecLeveling == Init /\ [][NextLeveling]_vars

(***************************************************************************)
(* The messages alone, each step observed: on_message, the end of a        *)
(* notification, the clock.                                                *)
(***************************************************************************)
NextMessages ==
    \/ OnMessage(TRUE, RandomDraws)
    \/ OnBotMessage(TRUE)
    \/ NotificationEnds(TRUE)
    \/ Tick(TRUE)

SpecMessages == Init /\ [][NextMessages]_vars

(***************************************************************************)
(* The handlers that write the tables, unobserved, at one time of the      *)
(* clock: messages, pay, give, take, setlevel and the role rewards.        *)
(***************************************************************************)
NextWriters ==
    \/ OnMessage(FALSE, {RANDOM_XP_BONUS})
    \/ Pay(FALSE)
    \/ Give(FALSE)
    \/ Take(FALSE)
    \/ SetLevelCommand(FALSE)
    \/ MemberUpdate(FALSE)

SpecWriters == Init /\ [][NextWriters]_vars

(***************************************************************************)
(* The messages, each observed, among setlevel commands, which write the   *)
(* same rows, unobserved, and the clock.                                   *)
(***************************************************************************)
NextGrants ==
    \/ OnMessage(TRUE, {RANDOM_XP_BONUS})
    \/ SetLevelCommand(FALSE)
    \/ Tick(FALSE)

SpecGrants == Init /\ [][NextGrants]_vars

(***************************************************************************)
(* The two level formulas of LevelingSystem, applied one after the other   *)
(* to levels up to MaxLevel, to the xp values around the level boundaries  *)
(* and to what the application before returned.  hist holds the            *)
(* applications: the function, its argument, its value.                    *)
(***************************************************************************)
LevelInputs == -1..MaxLevel
XpInputs ==
    {k * k * XP_PER_LEVEL_BASE + e : k \in 0..MaxLevel, e \in {-1, 0, 1}}

Applied(fn, arg, val) ==
    /\ Len(hist) < MaxApplied
    /\ hist' = Append(hist, [fn |-> fn, arg |-> arg, val |-> val])
    /\ ret' = [NoCall EXCEPT !.op = fn]
    /\ UNCHANGED <<users, tx, now, faults, notifs, scoped>>

\* What the application before returned, if it was one of fn.
LastValue(fn) ==
    IF hist # <<>> /\ hist[Len(hist)].fn = fn THEN {hist[Len(hist)].val} ELSE {}

XpForLevel ==
    \E level \in LevelInputs \cup LastValue("calculate_level_from_xp") :
        Applied("calculate_xp_for_level", level, calculate_xp_for_level(level))

LevelFromXp ==
    \E xp \in XpInputs \cup LastValue("calculate_xp_for_level") :
        Applied("calculate_level_from_xp", xp, calculate_level_from_xp(xp))

NextFormulas ==
    \/ XpForLevel
    \/ LevelFromXp

SpecFormulas == Init /\ [][NextFormulas]_vars

(***************************************************************************)
(* handle_level_up alone, observed, from the levels of OldLevels to every   *)
(* higher level up to MaxLevel, up to the sending of its notification and  *)
(* with no storage fault.                                                  *)
(* hist holds the two levels of the last call.                             *)
(***************************************************************************)
OldLevels == {1, 4}

HandleLevelUp ==
    \E uid \in UserIds, old_level \in OldLevels :
        \E new_level \in (old_level + 1)..MaxLevel :
            LET r == handle_level_up(Db(users, tx), uid, old_level, new_level, "none")
            IN  /\ Stored(TRUE, "handle_level_up", uid, None, 0,
                          [r EXCEPT !.sends = {}], <<"none", "none">>)
                /\ hist' = <<[old_level |-> old_level, new_level |-> new_level]>>

NextRewards == HandleLevelUp

SpecRewards == Init /\ [][NextRewards]_vars

(***************************************************************************)
(* Messages of several lengths, with either extreme of the random draw,    *)
(* each observed, at one time of the clock.  hist holds the length and the draw *)
(* of the last message.                                                    *)
(***************************************************************************)
GainLengths == {0, 50, 2000}

GainMessage ==
    \E uid \in UserIds, n \in GainLengths, rb \in RandomDraws,
       fc \in FaultChoices({"can_gain_xp", "get_xp", "add_xp", "set_level",
                            "add_coins"}, {"post"}) :
        /\ Stored(TRUE, "message", uid, None, 0,
                  process_message(Db(users, tx), uid, n, rb, now, fc[1], fc[2]), fc)
        /\ hist' = <<[message_length |-> n, random_bonus |-> rb]>>

NextGains == GainMessage

SpecGains == Init /\ [][NextGains]_vars

(***************************************************************************)
(* The cooldown gate: can_gain_xp called on its own, observed, between     *)
(* grants of add_xp and the passing of time.  Its one statement that       *)
(* touches the storage is the query, which is where a fault hits it.       *)
(***************************************************************************)
CanGainXpCall ==
    \E uid \in UserIds, f \in {"none", "post"} :
        Called("can_gain_xp", TRUE, uid, None, XP_COOLDOWN,
               can_gain_xp(Db(users, tx), uid, XP_COOLDOWN, now, f), f)

NextGate ==
    \/ CanGainXpCall
    \/ AddXpCall
    \/ Tick(FALSE)

SpecGate == Init /\ [][NextGate]_vars

(***************************************************************************)
(* The member updates of a run, recorded.  hist holds, per event, the      *)
(* member and the roles gained (after.roles - before.roles): none when a   *)
(* role was only removed.                                                  *)
(***************************************************************************)
RoleEvent ==
    \E uid \in UserIds, roles \in RoleLists \cup {<<>>},
       fc \in FaultChoices({"add_coins_1", "add_coins_2"}, {"pre", "post"}) :
        LET r == on_member_update(Db(users, tx), uid, roles,
                    CASE fc[1] = "add_coins_1" -> 1
                      [] fc[1] = "add_coins_2" -> 2
                      [] OTHER -> 0, fc[2])
        IN  /\ Len(hist) < MaxEvents
            /\ Stored(TRUE, "member_update", uid, None, Len(roles), r, fc)
            /\ hist' = Append(hist, [user |-> uid, roles |-> roles])

NextRoles == RoleEvent

SpecRoles == Init /\ [][NextRoles]_vars

(***************************************************************************)
(* The profile: the balance command, observed, among the events that write *)
(* xp and level: messages and the setlevel command.                        *)
(***************************************************************************)
NextProfile ==
    \/ BalanceQuery(TRUE)
    \/ OnMessage(FALSE, {RANDOM_XP_BONUS})
    \/ SetLevelCommand(FALSE)
    \/ Tick(FALSE)

SpecProfile == Init /\ [][NextProfile]_vars

(***************************************************************************)
(* The setlevel command, recorded, and the messages after it.  hist holds  *)
(* the member and the level of the last setlevel that got past set_level   *)
(* and get_user_data, that is, whose level is stored.                      *)
(***************************************************************************)
SetLevelRecorded ==
    \E is_admin \in BOOLEAN, uid \in UserIds, level \in Levels,
       fc \in FaultChoices({"get_level", "set_level", "get_user_data"}, {"post"}) :
        LET r == setlevel(Db(users, tx), is_admin, uid, level, fc[1], fc[2])
        IN  /\ Stored(TRUE, "setlevel", uid, None, level, r, fc)
            /\ hist' = IF r.out \in {"attribute_error", "level_set"}
                       THEN <<[user |-> uid, level |-> level]>>
                       ELSE hist

NextLevelSet ==
    \/ SetLevelRecorded
    \/ OnMessage(TRUE, {RANDOM_XP_BONUS})
    \/ Tick(TRUE)

SpecLevelSet == Init /\ [][NextLevelSet]_vars

(***************************************************************************)
(* Messages of members and of bots, observed.  hist holds whether the      *)
(* author of the last message is a bot.  A storage fault is drawn for      *)
(* every message; one that no call could take is not a step.               *)
(***************************************************************************)
AuthoredMessage ==
    \E uid \in UserIds, author_bot \in BOOLEAN, n \in MessageLengths,
       fc \in FaultChoices({"can_gain_xp", "get_xp", "add_xp", "set_level",
                            "add_coins"}, {"post"}) :
        /\ Stored(TRUE, "message", uid, None, calculate_xp_gain(n, RANDOM_XP_BONUS),
                  on_message(Db(users, tx), uid, author_bot, n, RANDOM_XP_BONUS,
                             now, fc[1], fc[2]), fc)
        /\ hist' = <<[author_bot |-> author_bot]>>

NextAuthors ==
    \/ AuthoredMessage
    \/ NotificationEnds(FALSE)
    \/ Tick(FALSE)

SpecAuthors == Init /\ [][NextAuthors]_vars

(***************************************************************************)
(* The message events of a run, recorded.  on_message starts one task per  *)
(* message, in the order of arrival; a task runs process_message up to the *)
(* notification without a suspension, at the time the message arrived.     *)
(* hist holds, per event: the author, the time, whether add_xp committed.  *)
(***************************************************************************)
MessageEvent ==
    \E uid \in UserIds, n \in MessageLengths,
       fc \in FaultChoices({"can_gain_xp", "get_xp", "add_xp", "set_level",
                            "add_coins"}, {"post"}) :
        LET r == process_message(Db(users, tx), uid, n, RANDOM_XP_BONUS, now,
                                 fc[1], fc[2])
        IN  /\ Len(hist) < MaxEvents
            /\ Stored(FALSE, "message", uid, None, 0, r, fc)
            /\ hist' = Append(hist, [user |-> uid, time |-> now,
                                     granted |-> r.granted])

NextCooldown ==
    \/ MessageEvent
    \/ NotificationEnds(FALSE)
    \/ Tick(FALSE)

SpecCooldown == Init /\ [][NextCooldown]_vars

(***************************************************************************)
(* The properties                                                          *)
(***************************************************************************)
Rows == {tx[i] : i \in 1..Len(tx)}

\* C1: in every state reachable by message, pay, give, take, setlevel and
\* role-reward events, every account has coins >= 0 and xp >= 0.
C1_NonNegative ==
    \A uid \in DOMAIN users : users[uid].coins >= 0 /\ users[uid].xp >= 0

\* A payment has emptied its sender's balance, and a message granted xp.
C1_Witness ==
    /\ \E row \in Rows : /\ row.transaction_type = "user_pay"
                         /\ users[row.from_user_id].coins = 0
    /\ \E uid \in DOMAIN users : users[uid].total_messages > 0

\* The balance the batch started from: the gift that opens the rows.
StartBalance ==
    IF tx # <<>> /\ tx[1].transaction_type = "admin_give" THEN tx[1].amount ELSE 0

RECURSIVE SumAmounts(_, _)
SumAmounts(h, only_ok) ==
    IF h = <<>> THEN 0
    ELSE (IF only_ok => h[1].ok THEN h[1].amount ELSE 0)
         + SumAmounts(Tail(h), only_ok)

RECURSIVE SumCoins(_, _)
SumCoins(u, ids) ==
    IF ids = {} THEN 0
    ELSE LET id == CHOOSE x \in ids : TRUE
         IN  u[id].coins + SumCoins(u, ids \ {id})

TotalCoins(u) == SumCoins(u, DOMAIN u)

\* The balance of uid in the table u; a user without a row holds nothing.
Balance(u, uid) == IF uid \in DOMAIN u THEN u[uid].coins ELSE 0

\* C3: a transfer_coins(A, B, amount) that returns True takes exactly amount
\* from A, gives exactly amount to B and leaves the sum of all balances as it
\* was, whatever calls on A or B came before it.
C3_TransferConserves ==
    [][(ret'.op = "transfer_coins" /\ ret'.out = "true") =>
        /\ ret'.user \in DOMAIN users /\ ret'.peer \in DOMAIN users'
        /\ users'[ret'.user].coins = users[ret'.user].coins - ret'.amount
        /\ users'[ret'.peer].coins = Balance(users, ret'.peer) + ret'.amount
        /\ TotalCoins(users') = TotalCoins(users)]_vars

\* A transfer has succeeded after other calls changed the balances.
C3_Witness ==
    /\ ret.op = "transfer_coins" /\ ret.out = "true"
    /\ Len(tx) >= 2
    /\ tx[Len(tx)] = Transaction(ret.user, ret.peer, ret.amount, "user_pay")

\* C4: over add_coins, remove_coins, set_coins and transfer_coins calls,
\* storage faults included, a call changes a balance exactly when it adds a
\* transactions row, and it adds at most one: the rows number the calls that
\* changed a balance.
C4_RowPerBalanceChange ==
    [][LET changed == \E uid \in DOMAIN users' :
                          users'[uid].coins # Balance(users, uid)
       IN  /\ DOMAIN users \subseteq DOMAIN users'
           /\ changed <=> Len(tx') = Len(tx) + 1
           /\ ~changed => tx' = tx
           /\ SubSeq(tx', 1, Len(tx)) = tx]_vars

\* Rows have been committed, and a storage fault has hit a call after them.
C4_Witness == ret.hit /\ ret.out = "raised" /\ Len(tx) >= 2

\* C5: remove_coins of amount > 0 on an existing account: with coins >= amount
\* it returns True, takes exactly amount and adds one row from the user to
\* NULL; with coins < amount it returns False and changes nothing.
C5_DebitApplies ==
    [][(ret'.op = "remove_coins" /\ ~ret'.hit /\ ret'.user \in DOMAIN users) =>
        IF users[ret'.user].coins >= ret'.amount
        THEN /\ ret'.out = "true"
             /\ users' = [users EXCEPT ![ret'.user].coins = @ - ret'.amount]
             /\ Len(tx') = Len(tx) + 1
             /\ tx'[Len(tx')].from_user_id = ret'.user
             /\ tx'[Len(tx')].to_user_id = None
        ELSE ret'.out = "false" /\ users' = users /\ tx' = tx]_vars

\* C6: a transfer_coins(A, B, amount) called when coins(A) < amount returns
\* False and leaves the balances, the set of accounts and the rows unchanged.
C6_PoorSenderNoChange ==
    [][(/\ ret'.op = "transfer_coins"
        /\ ret'.user \in DOMAIN users
        /\ users[ret'.user].coins < ret'.amount) =>
        ret'.out = "false" /\ users' = users /\ tx' = tx]_vars

\* A sender holding 1 was refused a transfer of 2 to a user without a row.
C6_Witness ==
    /\ ret.op = "transfer_coins" /\ ret.out = "false" /\ ~ret.hit
    /\ ret.user \in DOMAIN users /\ users[ret.user].coins > 0
    /\ users[ret.user].coins < ret.amount
    /\ ret.peer \notin DOMAIN users

\* C7: a transfer_coins(A, B, amount) with coins(A) >= amount to a B without a
\* row returns True, creates B with the default fields, takes amount from A,
\* leaves B with amount and adds exactly one row from A to B.
C7_TransferCreatesReceiver ==
    [][(/\ ret'.op = "transfer_coins" /\ ~ret'.hit
        /\ ret'.user \in DOMAIN users
        /\ users[ret'.user].coins >= ret'.amount
        /\ ret'.peer \notin DOMAIN users) =>
        /\ ret'.out = "true"
        /\ users' = [users EXCEPT ![ret'.user].coins = @ - ret'.amount]
                    @@ (ret'.peer :> [DefaultUser EXCEPT !.coins = ret'.amount])
        /\ tx' = Append(tx, Transaction(ret'.user, ret'.peer, ret'.amount,
                                        "user_pay"))]_vars

\* The level that leveling.py derives from an amount of xp, as the claim
\* writes it.
LevelOf(xp) == IntSqrtOfQuotient(xp, XP_PER_LEVEL_BASE) + 1

\* C8: after every message that was processed to its end and after every
\* setlevel that got past its validations, the stored level of the account is
\* floor(sqrt(xp / XP_PER_LEVEL_BASE)) + 1 of its stored xp.
C8_LevelMatchesXp ==
    ( \/ ret.op = "message" /\ ret.out \in {"granted", "level_up"}
      \/ ret.op = "setlevel" /\ ret.out \in {"level_set", "attribute_error"} )
    => users[ret.user].level = LevelOf(users[ret.user].xp)

\* C9: a setlevel by an admin with a level L >= 1, no storage fault in its
\* way, completes without error and leaves the account with level L and
\* xp (L-1)^2 * XP_PER_LEVEL_BASE.
C9_SetLevelSetsXp ==
    (ret.op = "setlevel" /\ ret.out \notin {"denied", "invalid_level"} /\ ~ret.hit)
    => /\ ret.out = "level_set"
       /\ users[ret.user].level = ret.amount
       /\ users[ret.user].xp = (ret.amount - 1) * (ret.amount - 1) * XP_PER_LEVEL_BASE

\* C10: of any two message events of one user less than XP_COOLDOWN seconds
\* apart, exactly one increased xp and total_messages.
C10_OneGrantPerCooldown ==
    \A i \in 1..Len(hist), j \in 1..Len(hist) :
        (i < j /\ hist[i].user = hist[j].user
               /\ hist[j].time - hist[i].time < XP_COOLDOWN)
        => (hist[i].granted # hist[j].granted)

\* The coins that the level_up rows of the log credit to uid.
RECURSIVE LevelUpCredits(_, _)
LevelUpCredits(t, uid) ==
    IF t = <<>> THEN 0
    ELSE (IF t[1].transaction_type = "level_up" /\ t[1].to_user_id = uid
          THEN t[1].amount ELSE 0) + LevelUpCredits(Tail(t), uid)

\* C11: in every reachable state the level_up credits of a user add up to the
\* rewards of the levels 2 .. level_for_xp(xp): every level the xp has crossed
\* is rewarded once, none twice and none skipped.
C11_EachLevelRewardedOnce ==
    \A uid \in DOMAIN users :
        LevelUpCredits(tx, uid) = RewardSum(2, calculate_level_from_xp(users[uid].xp))

\* C12: first-time get_user_data calls for an unseen user_id, run together,
\* leave exactly one row for it, with coins 0, xp 0, level 1, total_messages 0
\* and no last_xp_gain: one call stores the row, every call that returns
\* gives those fields, and the row stored is that one.
C12_OneDefaultAccount ==
    \A uid \in UserIds :
        LET calls == {i \in 1..Len(hist) : hist[i].user = uid}
            created == Cardinality({i \in calls : hist[i].created})
            defaults == [coins |-> 0, xp |-> 0, level |-> 1, total_messages |-> 0,
                         last_xp_gain |-> <<>>]
        IN  /\ created <= 1
            /\ (\E i \in calls : hist[i].returned) => uid \in DOMAIN users
            /\ created = 1 =>
                 /\ users[uid] = defaults
                 /\ \A i \in calls : hist[i].returned => hist[i].data = defaults

\* Three get_user_data calls for a user unseen before them have returned.
C12_Witness ==
    /\ Len(hist) = 3
    /\ \A i \in 1..3 : hist[i].user = "u2" /\ hist[i].returned
    /\ hist[1].created

\* The row of uid in the table u; the row a first access creates if none.
RowOf(u, uid) ==
    IF uid \in DOMAIN u THEN u[uid]
    ELSE [coins |-> 0, xp |-> 0, level |-> 1, total_messages |-> 0,
          last_xp_gain |-> <<>>]

\* The table u with the row of uid replaced by r (or added).
WithRow(u, uid, r) ==
    [v \in DOMAIN u \cup {uid} |-> IF v = uid THEN r ELSE u[v]]

\* The coins the log accounts to uid: what its rows credit to uid less what
\* its payments take from uid.
RECURSIVE LoggedCoins(_, _)
LoggedCoins(t, uid) ==
    IF t = <<>> THEN 0
    ELSE (IF t[1].to_user_id = uid THEN t[1].amount ELSE 0)
         - (IF t[1].from_user_id = uid /\ t[1].transaction_type = "user_pay"
            THEN t[1].amount ELSE 0)
         + LoggedCoins(Tail(t), uid)

\* C13: of the mutating operations that handlers in flight run on one account,
\* every one that reports success applies its change to the account as the
\* successes before it left it, so that the account reflects them all: the
\* other fields and the other accounts stay, and every balance is what the
\* committed rows add up to.
C13_NoLostUpdate ==
    [][LET uid == ret'.user
           a == ret'.amount
           old == RowOf(users, uid)
       IN  /\ (ret'.op = "add_coins" /\ ret'.out = "returned") =>
                 users' = WithRow(users, uid, [old EXCEPT !.coins = @ + a])
           /\ (ret'.op = "remove_coins" /\ ret'.out = "true") =>
                 users' = WithRow(users, uid, [old EXCEPT !.coins = @ - a])
           /\ (ret'.op = "set_coins" /\ ret'.out = "returned") =>
                 users' = WithRow(users, uid, [old EXCEPT !.coins = a])
           /\ (ret'.op = "transfer_coins" /\ ret'.out = "true") =>
                 users' = WithRow(WithRow(users, uid, [old EXCEPT !.coins = @ - a]),
                                  ret'.peer,
                                  [RowOf(users, ret'.peer) EXCEPT !.coins = @ + a])
           /\ (ret'.op = "add_xp" /\ ret'.out = "returned") =>
                 users' = WithRow(users, uid,
                                  [old EXCEPT !.xp = @ + a, !.total_messages = @ + 1,
                                              !.last_xp_gain = <<now>>])
           /\ (ret'.op = "set_level" /\ ret'.out = "returned") =>
                 users' = WithRow(users, uid, [old EXCEPT !.level = a])
           /\ \A v \in DOMAIN users' : users'[v].coins = LoggedCoins(tx', v)]_vars

\* A credit, a set_level and two add_xp have succeeded on one account, the
\* last of them an add_xp.
C13_Witness ==
    /\ ret.op = "add_xp" /\ ret.out = "returned"
    /\ users[ret.user].coins > 0
    /\ users[ret.user].level = 5
    /\ users[ret.user].xp = 2 * ret.amount

\* C14: add_coins, remove_coins, set_coins, transfer_coins, add_xp or set_level
\* hit by a storage fault leaves the users table, the set of its rows
\* included, and the transactions table as they were before the call.
C14_FaultLeavesNoTrace ==
    [][(/\ ret'.hit
        /\ ret'.op \in {"add_coins", "remove_coins", "set_coins", "transfer_coins",
                        "add_xp", "set_level"}) =>
        users' = users /\ tx' = tx]_vars

\* Whether the row a ranks strictly above the row b under sort_by.
RanksAbove(a, b, sort_by) ==
    IF sort_by = "level"
    THEN a.level > b.level \/ (a.level = b.level /\ a.xp > b.xp)
    ELSE a.coins > b.coins

\* C15: get_leaderboard(limit, sort_by) returns at most limit entries, each
\* the fields of one account, by coins descending for sort_by "coins" and by
\* (level, xp) descending for sort_by "level", and no account that it leaves
\* out ranks strictly above one that it returns.
C15_LeaderboardOrdered ==
    (ret.op = "get_leaderboard" /\ hist[1].sort_by \in {"coins", "level"}) =>
        LET b == hist[1]
            e == b.entries
            listed == {e[i].user_id : i \in 1..Len(e)}
        IN  /\ Len(e) <= b.limit
            /\ Cardinality(listed) = Len(e)
            /\ \A i \in 1..Len(e) :
                   /\ e[i].user_id \in DOMAIN users
                   /\ e[i].coins = users[e[i].user_id].coins
                   /\ e[i].level = users[e[i].user_id].level
                   /\ e[i].xp = users[e[i].user_id].xp
            /\ \A i, j \in 1..Len(e) : i < j => ~RanksAbove(e[j], e[i], b.sort_by)
            /\ \A uid \in DOMAIN users \ listed, i \in 1..Len(e) :
                   ~RanksAbove(users[uid], e[i], b.sort_by)

\* A level leaderboard of one entry was read from two accounts of different
\* levels, and one of two entries by coins from accounts of different coins.
C15_Witness ==
    /\ ret.op = "get_leaderboard"
    /\ DOMAIN users = {"u1", "u2"}
    /\ users["u1"].level # users["u2"].level
    /\ users["u1"].coins # users["u2"].coins
    /\ hist[1].sort_by = "level" /\ hist[1].limit = 1 /\ Len(hist[1].entries) = 1

\* Whether the row a ranks strictly above the row b by the level its xp
\* gives, then by xp.
RanksAboveByXp(a, b) ==
    \/ calculate_level_from_xp(a.xp) > calculate_level_from_xp(b.xp)
    \/ /\ calculate_level_from_xp(a.xp) = calculate_level_from_xp(b.xp)
       /\ a.xp > b.xp

\* C16: whenever the level leaderboard is read, also while a message is
\* being handled and after a setlevel, its order is the order by
\* (level of the xp, xp) descending: a stored level that has fallen behind or
\* was set by hand does not move an account.
C16_RankedByLevelOfXp ==
    (ret.op = "leaderboard" /\ hist[1].sort_by = "level") =>
        LET e == hist[1].entries
        IN  \A i, j \in 1..Len(e) : i < j => ~RanksAboveByXp(e[j], e[i])

\* C17: the leaderboard command answers "no users found" only when the users
\* table is empty and was read; a read that failed on every attempt gets
\* another answer.
C17_NoDataOnlyWhenEmpty ==
    (ret.op = "leaderboard" /\ hist[1].out = "no_data") =>
        /\ DOMAIN users = {}
        /\ hist[1].failures < 3

\* C18: get_leaderboard makes at most 3 attempts: it returns what the first
\* attempt that succeeds reads, one attempt after the failures before it, and
\* after a third failure in a row it stops, with no fourth attempt.
C18_ThreeAttempts ==
    ret.op = "get_leaderboard" =>
        LET b == hist[1]
            n == Cardinality(DOMAIN users)
        IN  /\ b.attempts <= 3
            /\ b.failures < 3 =>
                 /\ b.attempts = b.failures + 1
                 /\ Len(b.entries) = (IF n <= b.limit THEN n ELSE b.limit)
            /\ b.failures >= 3 => b.attempts = 3 /\ b.entries = <<>>

\* Two attempts failed and the third read the two accounts.
C18_Witness ==
    /\ ret.op = "get_leaderboard"
    /\ hist[1].failures = 2 /\ hist[1].attempts = 3
    /\ Len(hist[1].entries) = 2

\* The replies of pay to a request that fails a validation.
Rejections == {"invalid_self", "invalid_bot", "invalid_amount"}

\* Whether the pay request that ret and hist describe fails a validation.
Invalid(call, rec) ==
    \/ call.user = call.peer
    \/ rec[1].receiver_is_bot
    \/ call.amount < MIN_TRANSACTION

\* C19: a pay whose sender is the receiver, whose receiver is a bot or whose
\* amount is below MIN_TRANSACTION is rejected before the storage is touched:
\* no storage call is made (none can fail), no account is created, no balance
\* changes and no transaction row is written.
C19_RejectedBeforeStorage ==
    [][(ret'.op = "pay" /\ Invalid(ret', hist')) =>
            /\ ret'.out \in Rejections
            /\ ~ret'.hit
            /\ users' = users
            /\ tx' = tx
            /\ faults' = faults]_vars

\* Each of the three rejections met a sender without a row, with rows in the
\* transactions table.
C19_Witness ==
    /\ ret.op = "pay"
    /\ ret.out = "invalid_bot"
    /\ ret.user # ret.peer /\ ret.amount >= MIN_TRANSACTION
    /\ hist[1].receiver_is_bot
    /\ ret.user \notin DOMAIN users
    /\ Len(tx) > 0

\* C20: pay answers "insufficient funds" exactly when the request passed the
\* validations and the stored balance of the sender is below the amount; a
\* request that fails a validation or meets a storage fault gets another
\* answer.
C20_InsufficientOnlyWhenPoor ==
    [][ret'.op = "pay" =>
            /\ (ret'.out = "insufficient_funds") <=>
                   (~Invalid(ret', hist') /\ Balance(users, ret'.user) < ret'.amount)
            /\ ret'.hit => ret'.out # "insufficient_funds"]_vars

\* What a command leaves when the caller has no admin permission, for every
\* argument and every storage fault that could meet it.
Unprivileged(d) ==
    {give_coins(d, FALSE, uid, a, fc[1], fc[2]) :
        uid \in UserIds, a \in Amounts,
        fc \in FaultChoices({"get_coins", "add_coins"}, {"post"})}
    \cup {take_coins(d, FALSE, uid, a, fc[1], fc[2]) :
        uid \in UserIds, a \in Amounts,
        fc \in FaultChoices({"get_coins", "remove_coins"}, {"post"})}
    \cup {setlevel(d, FALSE, uid, level, fc[1], fc[2]) :
        uid \in UserIds, level \in Levels,
        fc \in FaultChoices({"get_level", "set_level", "get_user_data"}, {"post"})}
    \cup {backup(d, FALSE, fc[1], fc[2]) :
        fc \in FaultChoices({"backup_data", "get_user_count"}, {"post"})}

\* C21: give, take, setlevel and backup by a caller without admin permission
\* are denied, and a denied command leaves every account, the set of accounts
\* and the transaction log as they were (and has made no storage call).
C21_DeniedChangesNothing ==
    [][/\ \A r \in Unprivileged(Db(users, tx)) :
              r.out = "denied" /\ r.db = Db(users, tx) /\ ~r.hit
       /\ (ret'.op \in {"give", "take", "setlevel", "backup"} /\ ret'.out = "denied") =>
              users' = users /\ tx' = tx /\ faults' = faults /\ notifs' = notifs]_vars

\* A give was denied for a user without a row, with coins and rows stored.
C21_Witness ==
    /\ ret.op = "give" /\ ret.out = "denied" /\ ret.amount > 0
    /\ ret.user \notin DOMAIN users
    /\ Len(tx) > 0
    /\ \E uid \in DOMAIN users : users[uid].coins > 0

\* Whether what the notification n announces is in the tables u and t: the
\* xp that reaches its level, a stored level no lower, and the level_up row
\* of its reward with the coins of it.
Committed(n, u, t) ==
    /\ n.user \in DOMAIN u
    /\ calculate_level_from_xp(u[n.user].xp) >= n.new_level
    /\ u[n.user].level >= n.new_level
    /\ u[n.user].coins >= n.coin_reward
    /\ \E i \in 1..Len(t) :
           t[i] = Transaction(None, n.user, n.coin_reward, "level_up")

\* C22: when the delivery of a level-up notification fails, the handler ends
\* all the same and nothing is undone: the tables are left as they were, with
\* the xp, the level and the level_up credit and row that the notification
\* announced.
C22_LostNotificationKeepsGains ==
    [][(ret'.op = "notification" /\ ret'.out = "lost") =>
            /\ users' = users
            /\ tx' = tx
            /\ \A n \in notifs \ notifs' : Committed(n, users', tx')]_vars

\* The notification of a level-up to level 2 was lost.
C22_Witness ==
    /\ ret.op = "notification" /\ ret.out = "lost"
    /\ users[ret.user].level = 2
    /\ users[ret.user].coins = calculate_level_reward(2)
    /\ Len(tx) = 1

\* Whether uid is in cooldown at the time t: its last grant is less than
\* XP_COOLDOWN seconds old.
InCooldown(u, uid, t) ==
    /\ uid \in DOMAIN u
    /\ u[uid].last_xp_gain # <<>>
    /\ t - u[uid].last_xp_gain[1] < XP_COOLDOWN

\* C23: a message whose author is in cooldown changes nothing: every row of
\* the users table, the set of rows and the transactions table are as before.
C23_CooldownMessageChangesNothing ==
    [][(ret'.op = "message" /\ ret'.out # "ignored_bot"
            /\ InCooldown(users, ret'.user, now)) =>
            users' = users /\ tx' = tx]_vars

RowOrDefault(u, uid) == IF uid \in DOMAIN u THEN u[uid] ELSE DefaultUser

\* C25: total_messages counts the xp grants of an account: a step in which
\* add_xp commits for the account adds the amount to xp, 1 to total_messages
\* and sets last_xp_gain to the time of the step, all three together; every
\* other step leaves all three as they were.
C25_TotalMessagesCountsGrants ==
    [][\A uid \in UserIds :
            LET before == RowOrDefault(users, uid)
                after == RowOrDefault(users', uid)
            IN  IF ret'.op = "message" /\ ret'.granted /\ ret'.user = uid
                THEN /\ after.xp = before.xp + ret'.amount
                     /\ after.total_messages = before.total_messages + 1
                     /\ after.last_xp_gain = <<now>>
                ELSE /\ after.xp = before.xp
                     /\ after.total_messages = before.total_messages
                     /\ after.last_xp_gain = before.last_xp_gain]_vars

\* u2, first seen at its first message, was granted xp twice, the second time
\* a cooldown later, with no storage fault in the run.
C25_Witness ==
    /\ ret.op = "message" /\ ret.granted /\ ret.user = "u2"
    /\ users["u2"].total_messages = 2
    /\ users["u2"].xp = 2 * ret.amount
    /\ users["u2"].last_xp_gain = <<XP_COOLDOWN>>
    /\ users["u2"].level = 1
    /\ faults = 0

C27_FormulasMonotone ==
    \A i, j \in 1..Len(hist) :
        /\ ( /\ hist[i].fn = "calculate_xp_for_level"
             /\ hist[j].fn = "calculate_xp_for_level"
             /\ 1 <= hist[i].arg /\ hist[i].arg < hist[j].arg )
           => hist[i].val < hist[j].val
        /\ ( /\ hist[i].fn = "calculate_level_from_xp"
             /\ hist[j].fn = "calculate_level_from_xp"
             /\ hist[i].arg <= hist[j].arg )
           => hist[i].val <= hist[j].val
        /\ (hist[i].fn = "calculate_level_from_xp" /\ hist[i].arg < 0)
           => hist[i].val = 1

\* The level of an xp one short of a boundary and the level of the boundary
\* were computed and differ.
C27_Witness ==
    /\ Len(hist) = 2
    /\ hist[1].fn = "calculate_level_from_xp"
    /\ hist[2].fn = "calculate_level_from_xp"
    /\ hist[2].arg = hist[1].arg + 1
    /\ hist[2].val = hist[1].val + 1
    /\ hist[2].val = MaxLevel

\* The reward of reaching the level L: three times the base for a 10th
\* level, twice for another 5th, the base for the rest.
RewardOf(L) ==
    IF L % 10 = 0 THEN 3 * BASE_COINS_PER_LEVEL
    ELSE IF L % 5 = 0 /\ L % 10 # 0 THEN 2 * BASE_COINS_PER_LEVEL
    ELSE BASE_COINS_PER_LEVEL

\* The rewards of the levels of S, summed.
RECURSIVE RewardsOf(_)
RewardsOf(S) ==
    IF S = {} THEN 0
    ELSE LET L == CHOOSE x \in S : TRUE
         IN  RewardOf(L) + RewardsOf(S \ {L})

\* C28: a level-up from old_level to new_level credits the rewards of the
\* levels old_level+1 .. new_level, summed, by one level_up row; from 4 to 11
\* that is 500 coins.
C28_LevelUpCreditsSum ==
    [][(ret'.op = "handle_level_up" /\ ret'.out = "level_up") =>
            LET old_level == hist'[1].old_level
                new_level == hist'[1].new_level
                credit == RewardsOf((old_level + 1)..new_level)
            IN  /\ tx' = Append(tx, Transaction(None, ret'.user, credit, "level_up"))
                /\ users'[ret'.user].coins = Balance(users, ret'.user) + credit
                /\ (old_level = 4 /\ new_level = 11) => credit = 500]_vars

\* The level-up from 4 to 11 was credited to an account that held the reward
\* of an earlier one.
C28_Witness ==
    /\ ret.op = "handle_level_up" /\ ret.out = "level_up"
    /\ hist[1].old_level = 4 /\ hist[1].new_level = 11
    /\ Len(tx) = 2
    /\ users[ret.user].coins > 500

\* C29: the xp a message of n characters is granted lies between
\* BASE_XP_PER_MESSAGE + min(n \div 10, MAX_LENGTH_BONUS) and that plus
\* RANDOM_XP_BONUS, and is at least 1; a message of 50 characters, handled to
\* its end, takes a user from xp 0 to an xp of 20 .. 25 and level 1.
C29_GainWithinBounds ==
    [][(ret'.op = "message" /\ ret'.granted) =>
            LET n == hist'[1].message_length
                lowest == BASE_XP_PER_MESSAGE
                          + (IF n \div 10 <= MAX_LENGTH_BONUS THEN n \div 10
                             ELSE MAX_LENGTH_BONUS)
                before == RowOrDefault(users, ret'.user)
                after == users'[ret'.user]
                amount == after.xp - before.xp
            IN  /\ lowest <= amount
                /\ amount <= lowest + RANDOM_XP_BONUS
                /\ amount >= 1
                /\ (n = 50 /\ before.xp = 0 /\ ret'.out = "granted") =>
                       after.xp \in 20..25 /\ after.level = 1]_vars

\* A user without a row sent a message of 50 characters with the highest draw.
C29_Witness ==
    /\ ret.op = "message" /\ ret.out = "granted"
    /\ hist[1].message_length = 50 /\ hist[1].random_bonus = RANDOM_XP_BONUS
    /\ users[ret.user].xp = 25
    /\ users[ret.user].total_messages = 1

\* C30: set_coins(user_id, amount), no storage fault in its way, leaves the
\* balance at amount and appends exactly one admin_set row whose amount is
\* amount minus the balance before, whether the target is above, at or below
\* that balance.
C30_SetCoinsRecordsDelta ==
    [][(ret'.op = "set_coins" /\ ~ret'.hit) =>
            /\ ret'.out = "returned"
            /\ ret'.user \in DOMAIN users'
            /\ users'[ret'.user].coins = ret'.amount
            /\ Len(tx') = Len(tx) + 1
            /\ SubSeq(tx', 1, Len(tx)) = tx
            /\ tx'[Len(tx')].transaction_type = "admin_set"
            /\ tx'[Len(tx')].amount = ret'.amount - Balance(users, ret'.user)]_vars


\* C31: can_gain_xp(user_id, cooldown) changes neither table, and returns True
\* exactly when the account does not exist, has no last_xp_gain, or its
\* last_xp_gain is at least cooldown seconds old; never for an account inside
\* the cooldown window.
C31_CanGainXpExact ==
    [][ret'.op = "can_gain_xp" =>
            /\ users' = users
            /\ tx' = tx
            /\ ret'.out \in {"true", "false"}
            /\ ret'.out = "true" <=> ~InCooldown(users, ret'.user, now)]_vars


\* The role_reward rows that the events h add when every role gained is
\* credited: one per role, in the order of the events.
RECURSIVE RoleRows(_)
RoleRows(h) ==
    IF h = <<>> THEN <<>>
    ELSE [k \in 1..Len(h[1].roles) |->
             Transaction(None, h[1].user, RoleReward(h[1].roles[k]), "role_reward")]
         \o RoleRows(Tail(h))

\* The coins that rows of the kind given credit to uid.
RECURSIVE CreditsOf(_, _, _)
CreditsOf(t, uid, kind) ==
    IF t = <<>> THEN 0
    ELSE (IF t[1].transaction_type = kind /\ t[1].to_user_id = uid
          THEN t[1].amount ELSE 0) + CreditsOf(Tail(t), uid, kind)

\* C32: every member update credits each role gained with ROLE_REWARDS of its
\* name, DEFAULT_ROLE_REWARD for a name not listed, and writes one role_reward
\* row per role; a role gained again is credited again.  So in a run without
\* a storage fault the log is the rows of all the roles gained, event by
\* event, and (the accounts starting with no coins) each balance is the sum
\* of its rows; in any run the log holds no more rows than that.
C32_EveryRoleGainCredited ==
    /\ Len(tx) <= Len(RoleRows(hist))
    /\ faults = 0 =>
        /\ tx = RoleRows(hist)
        /\ \A uid \in UserIds :
                Balance(users, uid) = CreditsOf(RoleRows(hist), uid, "role_reward")

\* u1 gained VIP, lost it, and gained it again: two rows of 100, 200 coins.
C32_Witness ==
    /\ faults = 0
    /\ hist = <<[user |-> "u1", roles |-> <<"VIP">>],
                [user |-> "u1", roles |-> <<>>],
                [user |-> "u1", roles |-> <<"VIP">>]>>
    /\ tx = <<Transaction(None, "u1", 100, "role_reward"),
              Transaction(None, "u1", 100, "role_reward")>>
    /\ users["u1"].coins = 200


\* C33: the balance query shows xp_progress = xp - xp_for_level(level) and
\* xp_needed = xp_for_level(level + 1) - xp for the stored level, and in every
\* state it is asked in, also after a setlevel, xp_progress >= 0 and
\* xp_needed > 0: the stored xp lies in the range of the stored level.
C33_ProgressWithinLevel ==
    (ret.op = "balance" /\ ret.out = "profile") =>
        LET row == users[ret.user]
            stats == hist[1]
        IN  /\ stats.xp_progress = row.xp - calculate_xp_for_level(row.level)
            /\ stats.xp_needed = calculate_xp_for_level(row.level + 1) - row.xp
            /\ stats.xp_progress >= 0
            /\ stats.xp_needed > 0


\* C34: a level set by the setlevel command persists: after a setlevel of a
\* member to L, no message of that member that is processed leaves a stored
\* level lower than L.
C34_SetLevelPersists ==
    (/\ ret.op = "message"
     /\ ret.out # "ignored_bot"
     /\ hist # <<>>
     /\ hist[1].user = ret.user) =>
        users[ret.user].level >= hist[1].level


\* C35: a message whose author is a bot grants no xp and creates no account:
\* on_message returns before process_message, so the users table (its rows
\* and, in each, xp, level, coins, total_messages and last_xp_gain) and the
\* transactions table are as before, and no notification is started.
C35_BotMessageChangesNothing ==
    [][(ret'.op = "message" /\ hist'[1].author_bot) =>
            /\ ret'.out = "ignored_bot"
            /\ ~ret'.granted
            /\ users' = users
            /\ tx' = tx
            /\ notifs' = notifs]_vars

\* A bot whose id has no row wrote a message, at a time when u1, out of
\* cooldown, had been granted xp for one: the bot still has no row.
C35_Witness ==
    /\ ret.op = "message" /\ ret.out = "ignored_bot" /\ ret.user = "u2"
    /\ hist = <<[author_bot |-> TRUE]>>
    /\ "u2" \notin DOMAIN users
    /\ "u1" \in DOMAIN users /\ users["u1"].total_messages = 4

====
